---- MODULE Spec2Model ----
(***************************************************************************)
(* The red-black tree of rb_tree.h (rb_tree<T, Compare, Alloc> with        *)
(* T = int, Compare = std::less<int>).  Nodes live in a heap of cells; a   *)
(* pointer is a cell number, nil_ is the null pointer and end_ is the      *)
(* address of the embedded sentinel end_node_.                             *)
(***************************************************************************)
EXTENDS Integers, Sequences, FiniteSets, TLC

\* ---- bounds of the model ----
MaxKey == 6

\* ---- program constants ----
nil_ == 0
red_ == "red"
black_ == "black"

Keys == 1..MaxKey
Nodes == 1..MaxKey
end_ == MaxKey + 1
Cells == Nodes \cup {end_}
Ptr == Cells \cup {nil_}

comp_(a, b) == a < b

VARIABLES value, color, parent, left, right, begin_, size_, allocated,
          rot, path, ret

vars == <<value, color, parent, left, right, begin_, size_, allocated,
          rot, path, ret>>

\* The tree object as one value: the node fields, the members begin_ and
\* size_, the allocator's set of live cells, and two observers of the last
\* operation: rot counts the rotations it made, path names the branch taken.
T == [value |-> value, color |-> color, parent |-> parent, left |-> left,
      right |-> right, begin_ |-> begin_, size_ |-> size_,
      allocated |-> allocated, rot |-> rot, path |-> path]

\* Sequencing: F applied to the value of e, the way a statement sees what
\* the statements before it wrote.
Let(e, F(_)) == F(e)

root(t) == t.left[end_]

set_root(t, ptr) ==
    [t EXCEPT !.left[end_] = ptr, !.right[end_] = ptr, !.parent[ptr] = end_]

size(t) == t.size_
empty(t) == t.size_ = 0

\* ---- allocator ----
FreeCells(t) == Nodes \ t.allocated

\* node_alloc_traits::allocate for a node that will hold val.  Which free
\* address comes back is the allocator's choice, and the tree only ever
\* compares addresses for equality, so the model fixes the choice: the cell
\* numbered val when it is free, the lowest free cell otherwise.  nil_ stands
\* for a failed allocation (std::bad_alloc), the only outcome of a full heap.
AllocOutcomes(t, val) ==
    IF FreeCells(t) = {} THEN {nil_}
    ELSE IF val \in FreeCells(t) THEN {nil_, val}
    ELSE {nil_, CHOOSE n \in FreeCells(t) : \A m \in FreeCells(t) : n <= m}

\* create_node that marks the absent children with the sentinel.
create_node_sentinel(t, val, z) ==
    [t EXCEPT !.allocated = @ \cup {z}, !.value[z] = val,
              !.left[z] = end_, !.right[z] = end_]

create_node(t, val, z) ==
    [t EXCEPT !.allocated = @ \cup {z}, !.value[z] = val,
              !.left[z] = nil_, !.right[z] = nil_]

\* destroy_node that resets the cell but does not give it back.
destroy_node_leak(t, x) ==
    [t EXCEPT !.value[x] = 0, !.color[x] = black_,
              !.parent[x] = nil_, !.left[x] = nil_, !.right[x] = nil_]

\* After deallocate the cell's contents are indeterminate and are never read
\* again before create_node and its caller overwrite them; the model resets
\* the cell.
destroy_node(t, x) ==
    [t EXCEPT !.allocated = @ \ {x}, !.value[x] = 0, !.color[x] = black_,
              !.parent[x] = nil_, !.left[x] = nil_, !.right[x] = nil_]

\* ---- traversal ----
RECURSIVE min_node(_, _)
min_node(t, x) == IF t.left[x] # nil_ THEN min_node(t, t.left[x]) ELSE x

\* max_node that does not descend.
max_node_stay(t, x) == x

RECURSIVE max_node(_, _)
max_node(t, x) == IF t.right[x] # nil_ THEN max_node(t, t.right[x]) ELSE x

RECURSIVE next_up(_, _, _)
next_up(t, x, tmp) ==
    IF t.left[tmp] # x THEN next_up(t, tmp, t.parent[tmp]) ELSE tmp

next_node(t, x) ==
    IF t.right[x] # nil_ THEN min_node(t, t.right[x])
    ELSE next_up(t, x, t.parent[x])

\* prev_up that stops at the parent without climbing.
prev_up_noclimb(t, x, tmp) == tmp

RECURSIVE prev_up(_, _, _)
prev_up(t, x, tmp) ==
    IF t.right[tmp] # x THEN prev_up(t, tmp, t.parent[tmp]) ELSE tmp

prev_node(t, x) ==
    IF t.left[x] # nil_ THEN max_node(t, t.left[x])
    ELSE prev_up(t, x, t.parent[x])

\* ---- rotations ----
\* left_rotate without the test for the root: it relinks x->parent's child
\* slot only.
left_rotate_noroot(t, x) ==
    Let(t.right[x], LAMBDA y :
    Let([t EXCEPT !.right[x] = t.left[y]], LAMBDA t1 :
    Let(IF t1.left[y] # nil_
        THEN [t1 EXCEPT !.parent[t1.left[y]] = x] ELSE t1, LAMBDA t2 :
    Let([t2 EXCEPT !.parent[y] = t2.parent[x]], LAMBDA t3 :
    Let(IF x = t3.left[t3.parent[x]]
        THEN [t3 EXCEPT !.left[t3.parent[x]] = y]
        ELSE [t3 EXCEPT !.right[t3.parent[x]] = y], LAMBDA t4 :
    [t4 EXCEPT !.left[y] = x, !.parent[x] = y, !.rot = @ + 1])))))

\* left_rotate without "y->left->parent = x".
left_rotate_noreparent(t, x) ==
    Let(t.right[x], LAMBDA y :
    Let([t EXCEPT !.right[x] = t.left[y]], LAMBDA t2 :
    Let([t2 EXCEPT !.parent[y] = t2.parent[x]], LAMBDA t3 :
    Let(IF t3.parent[x] = end_ THEN set_root(t3, y)
        ELSE IF x = t3.left[t3.parent[x]]
             THEN [t3 EXCEPT !.left[t3.parent[x]] = y]
             ELSE [t3 EXCEPT !.right[t3.parent[x]] = y], LAMBDA t4 :
    [t4 EXCEPT !.left[y] = x, !.parent[x] = y, !.rot = @ + 1]))))

left_rotate(t, x) ==
    Let(t.right[x], LAMBDA y :
    Let([t EXCEPT !.right[x] = t.left[y]], LAMBDA t1 :
    Let(IF t1.left[y] # nil_
        THEN [t1 EXCEPT !.parent[t1.left[y]] = x] ELSE t1, LAMBDA t2 :
    Let([t2 EXCEPT !.parent[y] = t2.parent[x]], LAMBDA t3 :
    Let(IF t3.parent[x] = end_ THEN set_root(t3, y)
        ELSE IF x = t3.left[t3.parent[x]]
             THEN [t3 EXCEPT !.left[t3.parent[x]] = y]
             ELSE [t3 EXCEPT !.right[t3.parent[x]] = y], LAMBDA t4 :
    [t4 EXCEPT !.left[y] = x, !.parent[x] = y, !.rot = @ + 1])))))

\* right_rotate without "y->right->parent = x".
right_rotate_noreparent(t, x) ==
    Let(t.left[x], LAMBDA y :
    Let([t EXCEPT !.left[x] = t.right[y]], LAMBDA t2 :
    Let([t2 EXCEPT !.parent[y] = t2.parent[x]], LAMBDA t3 :
    Let(IF t3.parent[x] = end_ THEN set_root(t3, y)
        ELSE IF x = t3.right[t3.parent[x]]
             THEN [t3 EXCEPT !.right[t3.parent[x]] = y]
             ELSE [t3 EXCEPT !.left[t3.parent[x]] = y], LAMBDA t4 :
    [t4 EXCEPT !.right[y] = x, !.parent[x] = y, !.rot = @ + 1]))))

right_rotate(t, x) ==
    Let(t.left[x], LAMBDA y :
    Let([t EXCEPT !.left[x] = t.right[y]], LAMBDA t1 :
    Let(IF t1.right[y] # nil_
        THEN [t1 EXCEPT !.parent[t1.right[y]] = x] ELSE t1, LAMBDA t2 :
    Let([t2 EXCEPT !.parent[y] = t2.parent[x]], LAMBDA t3 :
    Let(IF t3.parent[x] = end_ THEN set_root(t3, y)
        ELSE IF x = t3.right[t3.parent[x]]
             THEN [t3 EXCEPT !.right[t3.parent[x]] = y]
             ELSE [t3 EXCEPT !.left[t3.parent[x]] = y], LAMBDA t4 :
    [t4 EXCEPT !.right[y] = x, !.parent[x] = y, !.rot = @ + 1])))))

\* transplant that, at the root, writes end_->left only.
transplant_leftonly(t, u, v) ==
    Let(IF t.parent[u] = end_
        THEN [t EXCEPT !.left[end_] = v]
        ELSE IF u = t.left[t.parent[u]]
             THEN [t EXCEPT !.left[t.parent[u]] = v]
             ELSE [t EXCEPT !.right[t.parent[u]] = v], LAMBDA t1 :
    IF v # nil_ THEN [t1 EXCEPT !.parent[v] = t1.parent[u]] ELSE t1)

transplant(t, u, v) ==
    Let(IF t.parent[u] = end_
        THEN [t EXCEPT !.left[end_] = v, !.right[end_] = v]
        ELSE IF u = t.left[t.parent[u]]
             THEN [t EXCEPT !.left[t.parent[u]] = v]
             ELSE [t EXCEPT !.right[t.parent[u]] = v], LAMBDA t1 :
    IF v # nil_ THEN [t1 EXCEPT !.parent[v] = t1.parent[u]] ELSE t1)

\* ---- insertion ----
\* "z->parent->color = black_; z->parent->parent->color = red_;" of
\* insert_fixup.
\* The recolouring of the black-uncle case without "z->parent->color =
\* black_".
recolor_up_noparent(t, z) ==
    [t EXCEPT !.color[t.parent[t.parent[z]]] = red_]

recolor_up(t, z) ==
    Let([t EXCEPT !.color[t.parent[z]] = black_], LAMBDA t1 :
    [t1 EXCEPT !.color[t1.parent[t1.parent[z]]] = red_])

\* The body of insert_fixup's loop when z->parent is a left child: the tree
\* and the z the next test of the loop sees.
insert_fixup_left(t, z, p, g) ==
    Let(t.right[g], LAMBDA y :
    IF y # nil_ /\ t.color[y] = red_
    THEN [t |-> [t EXCEPT !.color[p] = black_, !.color[y] = black_,
                          !.color[g] = red_],
          z |-> g]
    ELSE Let(z = t.right[p], LAMBDA inner :
         Let(IF inner THEN p ELSE z, LAMBDA z1 :
         Let(recolor_up(IF inner THEN left_rotate(t, p) ELSE t, z1), LAMBDA t3 :
         [t |-> right_rotate(t3, t3.parent[t3.parent[z1]]), z |-> z1]))))

\* The same when z->parent is a right child.
insert_fixup_right(t, z, p, g) ==
    Let(t.left[g], LAMBDA y :
    IF y # nil_ /\ t.color[y] = red_
    THEN [t |-> [t EXCEPT !.color[p] = black_, !.color[y] = black_,
                          !.color[g] = red_],
          z |-> g]
    ELSE Let(z = t.left[p], LAMBDA inner :
         Let(IF inner THEN p ELSE z, LAMBDA z1 :
         Let(recolor_up(IF inner THEN right_rotate(t, p) ELSE t, z1), LAMBDA t3 :
         [t |-> left_rotate(t3, t3.parent[t3.parent[z1]]), z |-> z1]))))

\* The while loop of insert_fixup, entered with z red.
RECURSIVE insert_fixup_loop(_, _)
insert_fixup_loop(t, z) ==
    IF t.color[t.parent[z]] # red_ THEN t
    ELSE Let(IF t.parent[z] = t.left[t.parent[t.parent[z]]]
             THEN insert_fixup_left(t, z, t.parent[z], t.parent[t.parent[z]])
             ELSE insert_fixup_right(t, z, t.parent[z], t.parent[t.parent[z]]),
             LAMBDA r : insert_fixup_loop(r.t, r.z))

\* insert_fixup with its while loop left out.
insert_fixup_noloop(t, z) ==
    Let([t EXCEPT !.color[z] = red_], LAMBDA t1 :
    [t1 EXCEPT !.color[root(t1)] = black_])

\* insert_fixup without the closing root()->color = black_.
insert_fixup_noroot(t, z) ==
    insert_fixup_loop([t EXCEPT !.color[z] = red_], z)

insert_fixup(t, z) ==
    Let(insert_fixup_loop([t EXCEPT !.color[z] = red_], z), LAMBDA t1 :
    [t1 EXCEPT !.color[root(t1)] = black_])

\* What insert returns: the tree afterwards, the pair (first, second), and
\* threw when create_node raised instead of returning.
Returned(t, first, second) ==
    [t |-> t, first |-> first, second |-> second, threw |-> FALSE]

Thrown(t) == [t |-> t, first |-> nil_, second |-> FALSE, threw |-> TRUE]

\* "y->left = z; z->parent = y;" or the same on the right, or set_root(z)
\* when y is end_.
link_leaf(t, z, y, side) ==
    IF y = end_ THEN set_root(t, z)
    ELSE IF side = "left"
         THEN [t EXCEPT !.left[y] = z, !.parent[z] = y]
         ELSE [t EXCEPT !.right[y] = z, !.parent[z] = y]

\* new_leaf that always writes y->right.
new_leaf_wrongside(t, val, z, y, side, newBegin, branch) ==
    IF z = nil_ THEN Thrown(t)
    ELSE Returned(
           insert_fixup(
             link_leaf([create_node(t, val, z) EXCEPT
                          !.size_ = @ + 1, !.rot = 0, !.path = branch,
                          !.begin_ = IF newBegin THEN z ELSE @],
                       z, y, "right"),
             z),
           z, TRUE)

\* new_leaf without ++size_.
new_leaf_nosize(t, val, z, y, side, newBegin, branch) ==
    IF z = nil_ THEN Thrown(t)
    ELSE Returned(
           insert_fixup(
             link_leaf([create_node(t, val, z) EXCEPT
                          !.rot = 0, !.path = branch,
                          !.begin_ = IF newBegin THEN z ELSE @],
                       z, y, side),
             z),
           z, TRUE)

\* new_leaf with ++size_ ahead of create_node.
new_leaf_countfirst(t, val, z, y, side, newBegin, branch) ==
    IF z = nil_ THEN Thrown([t EXCEPT !.size_ = @ + 1])
    ELSE Returned(
           insert_fixup(
             link_leaf([create_node(t, val, z) EXCEPT
                          !.size_ = @ + 1, !.rot = 0, !.path = branch,
                          !.begin_ = IF newBegin THEN z ELSE @],
                       z, y, side),
             z),
           z, TRUE)

\* The block every inserting branch repeats: create_node, ++size_, an
\* optional begin_ = z, the link under y on the given side, insert_fixup.
\* z is what the allocator returned.
new_leaf(t, val, z, y, side, newBegin, branch) ==
    IF z = nil_ THEN Thrown(t)
    ELSE Returned(
           insert_fixup(
             link_leaf([create_node(t, val, z) EXCEPT
                          !.size_ = @ + 1, !.rot = 0, !.path = branch,
                          !.begin_ = IF newBegin THEN z ELSE @],
                       z, y, side),
             z),
           z, TRUE)

\* The search loop of insert_unique: the last node visited and the last
\* comparison.
RECURSIVE insert_descend(_, _, _, _, _)
insert_descend(t, val, x, y, comp) ==
    IF x = nil_ THEN [y |-> y, comp |-> comp]
    ELSE IF comp_(val, t.value[x])
         THEN insert_descend(t, val, t.left[x], x, TRUE)
         ELSE insert_descend(t, val, t.right[x], x, FALSE)

\* insert_unique that forgets to step j back to the predecessor.
decrement_j_stay(t, j, tmp) == j

\* "decrement j" of insert_unique.
RECURSIVE decrement_j(_, _, _)
decrement_j(t, j, tmp) ==
    IF j # t.right[tmp] THEN decrement_j(t, tmp, t.parent[tmp]) ELSE tmp

Duplicate(t, j) == Returned([t EXCEPT !.rot = 0, !.path = "duplicate"], j, FALSE)

\* The left branch of insert_unique below the root and begin cases.
insert_left(t, val, z, y, j) ==
    IF comp_(t.value[j], val)
    THEN new_leaf(t, val, z, y, "left", FALSE, "left")
    ELSE Duplicate(t, j)

\* insert_at whose right branch links the leaf without the duplicate test.
insert_at_nodup(t, val, z, y, comp) ==
    IF comp
    THEN IF y = end_ THEN new_leaf(t, val, z, y, "left", TRUE, "root")
         ELSE IF y = t.begin_
              THEN new_leaf(t, val, z, y, "left", TRUE, "begin")
              ELSE insert_left(t, val, z, y, decrement_j(t, y, t.parent[y]))
    ELSE new_leaf(t, val, z, y, "right", FALSE, "right")

\* insert_unique after its search loop ended at y with the comparison comp.
insert_at(t, val, z, y, comp) ==
    IF comp
    THEN IF y = end_ THEN new_leaf(t, val, z, y, "left", TRUE, "root")
         ELSE IF y = t.begin_
              THEN new_leaf(t, val, z, y, "left", TRUE, "begin")
              ELSE insert_left(t, val, z, y, decrement_j(t, y, t.parent[y]))
    ELSE IF comp_(t.value[y], val)
         THEN new_leaf(t, val, z, y, "right", FALSE, "right")
         ELSE Duplicate(t, y)

insert_unique(t, val, z) ==
    Let(insert_descend(t, val, root(t), end_, TRUE), LAMBDA d :
    insert_at(t, val, z, d.y, d.comp))

\* insert_hint_middle that accepts the hint without comparing val with pos.
insert_hint_middle_nopos(t, pos, val, z, prev) ==
    IF comp_(t.value[prev], val)
    THEN IF t.right[prev] = nil_
         THEN new_leaf(t, val, z, prev, "right", FALSE, "hint_prev_right")
         ELSE new_leaf(t, val, z, pos, "left", FALSE, "hint_pos_left")
    ELSE insert_unique(t, val, z)

\* insert_hint_middle that picks the slot the other way round.
insert_hint_middle_swapped(t, pos, val, z, prev) ==
    IF comp_(t.value[prev], val) /\ comp_(val, t.value[pos])
    THEN IF t.right[prev] = nil_
         THEN new_leaf(t, val, z, pos, "left", FALSE, "hint_pos_left")
         ELSE new_leaf(t, val, z, prev, "right", FALSE, "hint_prev_right")
    ELSE insert_unique(t, val, z)

\* The hinted insert_unique for a hint that is neither end_ nor begin_.
insert_hint_middle(t, pos, val, z, prev) ==
    IF comp_(t.value[prev], val) /\ comp_(val, t.value[pos])
    THEN IF t.right[prev] = nil_
         THEN new_leaf(t, val, z, prev, "right", FALSE, "hint_prev_right")
         ELSE new_leaf(t, val, z, pos, "left", FALSE, "hint_pos_left")
    ELSE insert_unique(t, val, z)

\* The hinted insert_unique for the hint end_ on a non-empty tree.
insert_hint_end(t, val, z, prev) ==
    IF comp_(t.value[prev], val)
    THEN new_leaf(t, val, z, prev, "right", FALSE, "hint_end")
    ELSE insert_unique(t, val, z)

\* insert with a hint iterator.
insert_unique_hint(t, pos, val, z) ==
    IF pos = end_
    THEN IF pos = t.begin_
         THEN new_leaf(t, val, z, end_, "left", TRUE, "hint_root")
         ELSE insert_hint_end(t, val, z, prev_node(t, pos))
    ELSE IF pos = t.begin_
         THEN IF comp_(val, t.value[pos])
              THEN new_leaf(t, val, z, t.begin_, "left", TRUE, "hint_begin")
              ELSE insert_unique(t, val, z)
         ELSE insert_hint_middle(t, pos, val, z, prev_node(t, pos))

\* ---- order queries ----
\* lower_bound_loop with the comparison of upper_bound_unique.
RECURSIVE lower_bound_loop_strict(_, _, _, _)
lower_bound_loop_strict(t, val, x, y) ==
    IF x = nil_ THEN y
    ELSE IF comp_(val, t.value[x])
         THEN lower_bound_loop_strict(t, val, t.left[x], x)
         ELSE lower_bound_loop_strict(t, val, t.right[x], y)

\* lower_bound_loop that never records the candidate y.
RECURSIVE lower_bound_loop_norecord(_, _, _, _)
lower_bound_loop_norecord(t, val, x, y) ==
    IF x = nil_ THEN y
    ELSE IF comp_(t.value[x], val)
         THEN lower_bound_loop_norecord(t, val, t.right[x], y)
         ELSE lower_bound_loop_norecord(t, val, t.left[x], y)

RECURSIVE lower_bound_loop(_, _, _, _)
lower_bound_loop(t, val, x, y) ==
    IF x = nil_ THEN y
    ELSE IF comp_(t.value[x], val)
         THEN lower_bound_loop(t, val, t.right[x], y)
         ELSE lower_bound_loop(t, val, t.left[x], x)

lower_bound_unique(t, val) == lower_bound_loop(t, val, root(t), end_)

\* upper_bound_loop with the comparison of lower_bound_unique.
RECURSIVE upper_bound_loop_nonstrict(_, _, _, _)
upper_bound_loop_nonstrict(t, val, x, y) ==
    IF x = nil_ THEN y
    ELSE IF ~comp_(t.value[x], val)
         THEN upper_bound_loop_nonstrict(t, val, t.left[x], x)
         ELSE upper_bound_loop_nonstrict(t, val, t.right[x], y)

RECURSIVE upper_bound_loop(_, _, _, _)
upper_bound_loop(t, val, x, y) ==
    IF x = nil_ THEN y
    ELSE IF comp_(val, t.value[x])
         THEN upper_bound_loop(t, val, t.left[x], x)
         ELSE upper_bound_loop(t, val, t.right[x], y)

upper_bound_unique(t, val) == upper_bound_loop(t, val, root(t), end_)

\* "j.ptr_ == end_ || comp_(val, *j)": j does not hold val.
not_found(t, val, j) == j = end_ \/ comp_(val, t.value[j])

\* find_unique without the test of what lower_bound_unique found.
find_unique_nofilter(t, val) == lower_bound_unique(t, val)

find_unique(t, val) ==
    Let(lower_bound_unique(t, val), LAMBDA j :
    IF not_found(t, val, j) THEN end_ ELSE j)

\* equal_range_unique that returns the empty range also for a stored key.
equal_range_unique_empty(t, val) ==
    Let(lower_bound_unique(t, val), LAMBDA j : [first |-> j, second |-> j])

\* The pair of iterators equal_range_unique returns; std::next(j) is ++j.
equal_range_unique(t, val) ==
    Let(lower_bound_unique(t, val), LAMBDA j :
    IF not_found(t, val, j) THEN [first |-> j, second |-> j]
    ELSE [first |-> j, second |-> next_node(t, j)])

\* ---- deletion ----
\* "(w->left == nil_ || w->left->color == black_) && (w->right == nil_ ||
\* w->right->color == black_)" of erase_fixup.
both_black(t, w) ==
    /\ (t.left[w] = nil_ \/ t.color[t.left[w]] = black_)
    /\ (t.right[w] = nil_ \/ t.color[t.right[w]] = black_)

\* erase_fixup, x on the left: the red-sibling step (lines 791-797).
fix_left_red_sibling(t, xparent, w) ==
    IF t.color[w] = red_
    THEN left_rotate([t EXCEPT !.color[w] = black_, !.color[xparent] = red_],
                     xparent)
    ELSE t

\* x on the left: the near-child step (lines 804-810).
fix_left_near(t, xparent, w) ==
    IF t.right[w] = nil_ \/ t.color[t.right[w]] = black_
    THEN right_rotate(
           [t EXCEPT !.color = IF t.left[w] # nil_
                               THEN [@ EXCEPT ![t.left[w]] = black_, ![w] = red_]
                               ELSE [@ EXCEPT ![w] = red_]],
           w)
    ELSE t

\* x on the left: the closing step (lines 811-816).
fix_left_far(t, xparent, w) ==
    Let([t EXCEPT !.color[w] = t.color[xparent]], LAMBDA t1 :
    Let([t1 EXCEPT !.color[xparent] = black_], LAMBDA t2 :
    left_rotate(IF t2.right[w] # nil_
                THEN [t2 EXCEPT !.color[t2.right[w]] = black_] ELSE t2,
                xparent)))

\* erase_fixup_left without the closing "x = root()".
erase_fixup_left_nostop(t, x, xparent) ==
    Let(fix_left_red_sibling(t, xparent, t.right[xparent]), LAMBDA t1 :
    Let(t1.right[xparent], LAMBDA w :
    IF both_black(t1, w)
    THEN [t |-> [t1 EXCEPT !.color[w] = red_], x |-> xparent,
          xparent |-> t1.parent[xparent]]
    ELSE Let(fix_left_near(t1, xparent, w), LAMBDA t2 :
         Let(fix_left_far(t2, xparent, t2.right[xparent]), LAMBDA t3 :
         [t |-> t3, x |-> x, xparent |-> xparent]))))

\* The body of erase_fixup's loop when x is xparent's left child: the tree
\* and the x and xparent the next test of the loop sees.
erase_fixup_left(t, x, xparent) ==
    Let(fix_left_red_sibling(t, xparent, t.right[xparent]), LAMBDA t1 :
    Let(t1.right[xparent], LAMBDA w :
    IF both_black(t1, w)
    THEN [t |-> [t1 EXCEPT !.color[w] = red_], x |-> xparent,
          xparent |-> t1.parent[xparent]]
    ELSE Let(fix_left_near(t1, xparent, w), LAMBDA t2 :
         Let(fix_left_far(t2, xparent, t2.right[xparent]), LAMBDA t3 :
         [t |-> t3, x |-> root(t3), xparent |-> xparent]))))

\* x on the right: the red-sibling step (lines 819-825).
fix_right_red_sibling(t, xparent, w) ==
    IF t.color[w] = red_
    THEN right_rotate([t EXCEPT !.color[w] = black_, !.color[xparent] = red_],
                      xparent)
    ELSE t

\* x on the right: the near-child step (lines 832-838).
fix_right_near(t, xparent, w) ==
    IF t.left[w] = nil_ \/ t.color[t.left[w]] = black_
    THEN left_rotate(
           [t EXCEPT !.color = IF t.right[w] # nil_
                               THEN [@ EXCEPT ![t.right[w]] = black_, ![w] = red_]
                               ELSE [@ EXCEPT ![w] = red_]],
           w)
    ELSE t

\* fix_right_far without "w->left->color = black_".
fix_right_far_norecolor(t, xparent, w) ==
    Let([t EXCEPT !.color[w] = t.color[xparent]], LAMBDA t1 :
    Let([t1 EXCEPT !.color[xparent] = black_], LAMBDA t2 :
    right_rotate(t2, xparent)))

\* x on the right: the closing step (lines 839-844).
fix_right_far(t, xparent, w) ==
    Let([t EXCEPT !.color[w] = t.color[xparent]], LAMBDA t1 :
    Let([t1 EXCEPT !.color[xparent] = black_], LAMBDA t2 :
    right_rotate(IF t2.left[w] # nil_
                 THEN [t2 EXCEPT !.color[t2.left[w]] = black_] ELSE t2,
                 xparent)))

\* The same when x is xparent's right child.
erase_fixup_right(t, x, xparent) ==
    Let(fix_right_red_sibling(t, xparent, t.left[xparent]), LAMBDA t1 :
    Let(t1.left[xparent], LAMBDA w :
    IF both_black(t1, w)
    THEN [t |-> [t1 EXCEPT !.color[w] = red_], x |-> xparent,
          xparent |-> t1.parent[xparent]]
    ELSE Let(fix_right_near(t1, xparent, w), LAMBDA t2 :
         Let(fix_right_far(t2, xparent, t2.left[xparent]), LAMBDA t3 :
         [t |-> t3, x |-> root(t3), xparent |-> xparent]))))

\* The while loop of erase_fixup; yields the tree and the final x.
RECURSIVE erase_fixup_loop(_, _, _)
erase_fixup_loop(t, x, xparent) ==
    IF ~(x # root(t) /\ (x = nil_ \/ t.color[x] = black_))
    THEN [t |-> t, x |-> x]
    ELSE Let(IF x = t.left[xparent] THEN erase_fixup_left(t, x, xparent)
             ELSE erase_fixup_right(t, x, xparent),
             LAMBDA r : erase_fixup_loop(r.t, r.x, r.xparent))

\* erase_fixup with its while loop left out.
erase_fixup_noloop(t, x, xparent) ==
    IF x # nil_ THEN [t EXCEPT !.color[x] = black_] ELSE t

erase_fixup(t, x, xparent) ==
    Let(erase_fixup_loop(t, x, xparent), LAMBDA r :
    IF r.x # nil_ THEN [r.t EXCEPT !.color[r.x] = black_] ELSE r.t)

\* erase_node that leaves begin_ alone.
advance_begin_stale(t, z) == t

\* "if (z == begin_) begin_ = next_node(z);" of erase_node.
advance_begin(t, z) ==
    IF z = t.begin_ THEN [t EXCEPT !.begin_ = next_node(t, z)] ELSE t

\* erase_node that takes xparent from x itself, which yields no node when x
\* is nil.
Unlinked_fromx(t, x, xparent, ycolor, branch) ==
    [t |-> [t EXCEPT !.path = branch], x |-> x,
     xparent |-> IF x = nil_ THEN nil_ ELSE t.parent[x],
     ycolor |-> ycolor]

\* What erase_node hands to erase_fixup: the tree with z unlinked and the
\* locals x, xparent and ycolor.
Unlinked(t, x, xparent, ycolor, branch) ==
    [t |-> [t EXCEPT !.path = branch], x |-> x, xparent |-> xparent,
     ycolor |-> ycolor]

\* detach_successor whose else branch keeps y's parent, which is z, as
\* xparent.
detach_successor_stale(t, z, y) ==
    IF t.parent[y] # z
    THEN Let(transplant(t, y, t.right[y]), LAMBDA a :
         Let([a EXCEPT !.right[y] = a.right[z]], LAMBDA b :
         Let([b EXCEPT !.parent[b.right[y]] = y], LAMBDA c :
         [t |-> c, xparent |-> c.parent[y]])))
    ELSE [t |-> t, xparent |-> t.parent[y]]

\* erase_node for a z with two children, y = min_node(z->right): "if
\* (y->parent != z) {...} else xparent = y;" (lines 875-882); yields the tree
\* and xparent.
detach_successor(t, z, y) ==
    IF t.parent[y] # z
    THEN Let(transplant(t, y, t.right[y]), LAMBDA a :
         Let([a EXCEPT !.right[y] = a.right[z]], LAMBDA b :
         Let([b EXCEPT !.parent[b.right[y]] = y], LAMBDA c :
         [t |-> c, xparent |-> c.parent[y]])))
    ELSE [t |-> t, xparent |-> y]

\* "transplant(z, y); y->left = z->left; y->left->parent = y; y->color =
\* z->color;" (lines 883-886).
replace_by_successor(t, z, y) ==
    Let(transplant(t, z, y), LAMBDA t2 :
    Let([t2 EXCEPT !.left[y] = t2.left[z]], LAMBDA t3 :
    Let([t3 EXCEPT !.parent[t3.left[y]] = y], LAMBDA t4 :
    [t4 EXCEPT !.color[y] = t4.color[z]])))

erase_two_children(t, z, y) ==
    Let(detach_successor(t, z, y), LAMBDA d :
    Unlinked(replace_by_successor(d.t, z, y), t.right[y], d.xparent,
             t.color[y],
             IF t.parent[y] # z THEN "succ_below" ELSE "succ_child"))

\* erase_node up to the call of erase_fixup.
erase_unlink(t, z) ==
    Let([t EXCEPT !.size_ = @ - 1, !.rot = 0], LAMBDA t0 :
    IF t0.left[z] = nil_
    THEN Let(transplant(advance_begin(t0, z), z, t0.right[z]), LAMBDA t2 :
         Unlinked(t2, t0.right[z], t2.parent[z], t0.color[z], "no_left"))
    ELSE IF t0.right[z] = nil_
    THEN Let(transplant(t0, z, t0.left[z]), LAMBDA t2 :
         Unlinked(t2, t0.left[z], t2.parent[z], t0.color[z], "no_right"))
    ELSE erase_two_children(t0, z, min_node(t0, t0.right[z])))

\* erase_node that, for a z with two children, copies the key of the
\* successor into z and unlinks and destroys the successor instead.
erase_node_copykey(t, z) ==
    IF t.left[z] # nil_ /\ t.right[z] # nil_
    THEN Let(min_node(t, t.right[z]), LAMBDA y :
         Let(erase_unlink([t EXCEPT !.value[z] = t.value[y]], y), LAMBDA u :
         destroy_node(IF u.ycolor = black_
                      THEN erase_fixup(u.t, u.x, u.xparent) ELSE u.t,
                      y)))
    ELSE Let(erase_unlink(t, z), LAMBDA u :
         destroy_node(IF u.ycolor = black_
                      THEN erase_fixup(u.t, u.x, u.xparent) ELSE u.t,
                      z))

erase_node(t, z) ==
    Let(erase_unlink(t, z), LAMBDA u :
    destroy_node(IF u.ycolor = black_ THEN erase_fixup(u.t, u.x, u.xparent)
                 ELSE u.t,
                 z))

NoErase(t, why) == [t EXCEPT !.rot = 0, !.path = why]

\* erase_iter that returns the iterator it was given.
erase_iter_same(t, pos) ==
    IF pos = end_ THEN [t |-> NoErase(t, "end"), first |-> end_]
    ELSE [t |-> erase_node(t, pos), first |-> pos]

\* erase_iter that counts the erase before it tests for end().
erase_iter_counted(t, pos) ==
    IF pos = end_
    THEN [t |-> [NoErase(t, "end") EXCEPT !.size_ = @ - 1], first |-> end_]
    ELSE [t |-> erase_node(t, pos), first |-> next_node(t, pos)]

erase_iter(t, pos) ==
    IF pos = end_ THEN [t |-> NoErase(t, "end"), first |-> end_]
    ELSE [t |-> erase_node(t, pos), first |-> next_node(t, pos)]

\* erase_range_loop that takes the range as closed: it erases last too.
RECURSIVE erase_range_loop_closed(_, _, _)
erase_range_loop_closed(t, now, last) ==
    IF now = last THEN (IF last = end_ THEN t ELSE erase_node(t, last))
    ELSE erase_range_loop_closed(erase_node(t, now), next_node(t, now), last)

RECURSIVE erase_range_loop(_, _, _)
erase_range_loop(t, now, last) ==
    IF now = last THEN t
    ELSE erase_range_loop(erase_node(t, now), next_node(t, now), last)

erase_range(t, first, last) ==
    IF first = end_ THEN [t |-> NoErase(t, "end"), first |-> end_]
    ELSE [t |-> erase_range_loop(NoErase(t, "empty_range"), first, last),
          first |-> last]

\* clear(): erase(begin(), end()).
clear(t) == erase_range(t, t.begin_, end_).t

\* erase_unique that erases whatever lower_bound_unique found.
erase_unique_nocheck(t, val) ==
    Let(lower_bound_unique(t, val), LAMBDA j :
    IF j = end_
    THEN [t |-> NoErase(t, "absent"), count |-> 0]
    ELSE [t |-> erase_node(t, j), count |-> 1])

erase_unique(t, val) ==
    Let(lower_bound_unique(t, val), LAMBDA j :
    IF not_found(t, val, j)
    THEN [t |-> NoErase(t, "absent"), count |-> 0]
    ELSE [t |-> erase_node(t, j), count |-> 1])

\* ---- the state machine ----
\* rb_tree(): the empty tree.
Init ==
    /\ value = [n \in Nodes |-> 0]
    /\ color = [n \in Cells |-> black_]
    /\ parent = [n \in Cells |-> IF n = end_ THEN end_ ELSE nil_]
    /\ left = [n \in Cells |-> nil_]
    /\ right = [n \in Cells |-> nil_]
    /\ begin_ = end_
    /\ size_ = 0
    /\ allocated = {}
    /\ rot = 0
    /\ path = "none"
    /\ ret = [op |-> "rb_tree", first |-> nil_, last |-> nil_,
              second |-> FALSE, count |-> 0, threw |-> FALSE]

\* The tree becomes t.
Becomes(t) ==
    /\ value' = t.value
    /\ color' = t.color
    /\ parent' = t.parent
    /\ left' = t.left
    /\ right' = t.right
    /\ begin_' = t.begin_
    /\ size_' = t.size_
    /\ allocated' = t.allocated
    /\ rot' = t.rot
    /\ path' = t.path

\* Iterators a caller can hold: the live nodes and end().
Iterators == allocated \cup {end_}

\* [first, last) is a range of the tree: last is reached from first by ++.
RECURSIVE IsRange(_, _, _)
IsRange(t, first, last) ==
    IF first = last THEN TRUE
    ELSE IF first = end_ THEN FALSE
    ELSE IsRange(t, next_node(t, first), last)

\* What the last call returned: the iterator, or the first iterator of a
\* pair (first), the second iterator of a pair of iterators (last), the bool
\* of insert's pair (second), the count of erase(val), and whether the call
\* left by an exception.
Result(op, first, last, second, count, threw) ==
    [op |-> op, first |-> first, last |-> last, second |-> second,
     count |-> count, threw |-> threw]

\* A call that reads the tree and changes nothing.
Query(t) == [t EXCEPT !.rot = 0, !.path = "query"]

\* insert(val); z is the outcome of the allocation, if one is made.
Insert(val, z) ==
    Let(insert_unique(T, val, z), LAMBDA r :
        /\ Becomes(r.t)
        /\ ret' = Result("insert", r.first, nil_, r.second, 0, r.threw))

\* insert(pos, val)
InsertHint(pos, val, z) ==
    Let(insert_unique_hint(T, pos, val, z), LAMBDA r :
        /\ Becomes(r.t)
        /\ ret' = Result("insert_hint", r.first, nil_, FALSE, 0, r.threw))

\* erase(pos)
EraseIter(pos) ==
    Let(erase_iter(T, pos), LAMBDA r :
        /\ Becomes(r.t)
        /\ ret' = Result("erase_iter", r.first, nil_, FALSE, 0, FALSE))

\* erase(val)
EraseKey(val) ==
    Let(erase_unique(T, val), LAMBDA r :
        /\ Becomes(r.t)
        /\ ret' = Result("erase_key", nil_, nil_, FALSE, r.count, FALSE))

\* erase(first, last)
EraseRange(first, last) ==
    /\ IsRange(T, first, last)
    /\ Let(erase_range(T, first, last), LAMBDA r :
           /\ Becomes(r.t)
           /\ ret' = Result("erase_range", r.first, nil_, FALSE, 0, FALSE))

\* clear()
Clear ==
    /\ Becomes(clear(T))
    /\ ret' = Result("clear", nil_, nil_, FALSE, 0, FALSE)

\* find(val)
Find(val) ==
    /\ Becomes(Query(T))
    /\ ret' = Result("find", find_unique(T, val), nil_, FALSE, 0, FALSE)

\* lower_bound(val)
LowerBound(val) ==
    /\ Becomes(Query(T))
    /\ ret' = Result("lower_bound", lower_bound_unique(T, val), nil_, FALSE,
                     0, FALSE)

\* upper_bound(val)
UpperBound(val) ==
    /\ Becomes(Query(T))
    /\ ret' = Result("upper_bound", upper_bound_unique(T, val), nil_, FALSE,
                     0, FALSE)

\* equal_range(val)
EqualRange(val) ==
    Let(equal_range_unique(T, val), LAMBDA r :
        /\ Becomes(Query(T))
        /\ ret' = Result("equal_range", r.first, r.second, FALSE, 0, FALSE))

Next ==
    \/ \E val \in Keys : \E z \in AllocOutcomes(T, val) : Insert(val, z)
    \/ \E pos \in Iterators : \E val \in Keys : \E z \in AllocOutcomes(T, val) :
          InsertHint(pos, val, z)
    \/ \E pos \in Iterators : EraseIter(pos)
    \/ \E val \in Keys : EraseKey(val)
    \/ \E first \in Iterators : \E last \in Iterators : EraseRange(first, last)
    \/ Clear
    \/ \E val \in Keys : Find(val)
    \/ \E val \in Keys : LowerBound(val)
    \/ \E val \in Keys : UpperBound(val)
    \/ \E val \in Keys : EqualRange(val)

Spec == Init /\ [][Next]_vars

\* ---- observations used to state the properties ----
\* The nodes linked under x (x included), following child links at most
\* fuel levels down.
RECURSIVE Subtree(_, _, _)
Subtree(t, x, fuel) ==
    IF x = nil_ \/ fuel = 0 THEN {}
    ELSE {x} \cup Subtree(t, t.left[x], fuel - 1)
             \cup Subtree(t, t.right[x], fuel - 1)

InTree(t) == Subtree(t, root(t), MaxKey + 1)

StoredKeys(t) == {t.value[n] : n \in InTree(t)}

\* The nodes an iterator visits from x by ++ until it equals end(), cut off
\* after fuel steps.
RECURSIVE Walk(_, _, _)
Walk(t, x, fuel) ==
    IF x = end_ \/ fuel = 0 THEN <<>>
    ELSE <<x>> \o Walk(t, next_node(t, x), fuel - 1)

Forward(t) == Walk(t, t.begin_, MaxKey + 1)

\* The number of black nodes on every path from x down to a nil link, or -1
\* when two such paths disagree.
RECURSIVE BlackHeight(_, _, _)
BlackHeight(t, x, fuel) ==
    IF x = nil_ THEN 0
    ELSE IF fuel = 0 THEN -1
    ELSE LET l == BlackHeight(t, t.left[x], fuel - 1)
             r == BlackHeight(t, t.right[x], fuel - 1)
         IN IF l = -1 \/ r = -1 \/ l # r THEN -1
            ELSE l + (IF t.color[x] = black_ THEN 1 ELSE 0)

IsBlack(t, x) == x = nil_ \/ t.color[x] = black_

\* The fields of the tree proper: links, colours, keys, begin cache, size
\* and the live cells.
Structure == <<value, color, parent, left, right, begin_, size_, allocated>>

\* ---- C1 ----
\* C1: after every completed operation, the traversal from begin() by
\* next_node reaches end(), visits every node of the tree exactly once, in
\* strictly increasing key order, and no two stored keys are equivalent.
C1_OrderedUnique ==
    LET w == Forward(T)
    IN /\ Len(w) = Cardinality(InTree(T))
       /\ {w[i] : i \in 1..Len(w)} = InTree(T)
       /\ \A i \in 1..(Len(w) - 1) : comp_(value[w[i]], value[w[i + 1]])
       /\ \A a \in InTree(T) : \A b \in InTree(T) :
            a # b => (comp_(value[a], value[b]) \/ comp_(value[b], value[a]))

C1_Witness ==
    /\ ret.op = "erase_range" /\ path = "succ_below"
    /\ size_ >= 3

\* ---- C2 ----
\* C2: after every completed insert and erase no red node has a red child.
C2_NoRedRed ==
    \A n \in InTree(T) :
        color[n] = red_ => IsBlack(T, left[n]) /\ IsBlack(T, right[n])

C2_Witness ==
    /\ ret.op = "erase_key" /\ ret.count = 1 /\ rot >= 2
    /\ \E n \in InTree(T) : color[n] = red_ /\ left[n] # nil_ /\ right[n] # nil_

\* ---- C3 ----
\* C3: after every completed insert and erase, for every node all paths down
\* to a nil link hold the same number of black nodes, also after the erase of
\* a node with two children.
C3_BlackHeight ==
    \A n \in InTree(T) : BlackHeight(T, n, MaxKey + 1) # -1

C3_Witness ==
    /\ ret.op = "erase_key" /\ ret.count = 1
    /\ path \in {"succ_child", "succ_below"}
    /\ rot >= 1 /\ size_ >= 4

\* ---- C4 ----
\* C4: after every completed insert and erase the root of a non-empty tree is
\* black, also after the first insert, where the insert_fixup loop never runs.
C4_RootBlack == root(T) # nil_ => color[root(T)] = black_

C4_Witness ==
    /\ ret.op = "insert" /\ ret.second /\ path = "root"
    /\ size_ = 1 /\ color[root(T)] = black_

\* ---- C5 ----
\* The begin cache is the leftmost node, and is end() exactly when the tree
\* is empty.
BeginIsLeftmost ==
    /\ begin_ = (IF root(T) = nil_ THEN end_ ELSE min_node(T, root(T)))
    /\ (begin_ = end_) <=> (root(T) = nil_)

\* A step that erases the leftmost node leaves begin() at the node that held
\* the smallest of the keys that remain (the old second-smallest key when one
\* node is erased), or at end() when none remains.
EraseLeftmostStep ==
    (begin_ # end_ /\ begin_ \notin allocated') =>
        LET rest == {n \in InTree(T) : n \in allocated'}
        IN IF rest = {} THEN begin_' = end_
           ELSE /\ begin_' \in rest
                /\ \A n \in rest : ~comp_(value[n], value[begin_'])
                /\ value'[begin_'] = value[begin_']

\* C5: after construction and after every completed operation the begin
\* cache equals the leftmost node, and equals the sentinel iff the tree is
\* empty; after the leftmost element is erased begin() is the node that held
\* the next smallest key, or end().
C5_BeginCache == BeginIsLeftmost /\ [][BeginIsLeftmost' /\ EraseLeftmostStep]_vars

C5_Witness ==
    /\ ret.op = "erase_iter" /\ ret.first = begin_
    /\ begin_ # end_ /\ size_ >= 3
    /\ path = "no_left" /\ rot >= 1

\* ---- C6 ----
\* C6: after every completed operation size() is the number of nodes the
\* traversal from begin() to end() visits, and empty() holds exactly when
\* that number is zero.
C6_SizeIsCount ==
    /\ size(T) = Len(Forward(T))
    /\ empty(T) <=> (Len(Forward(T)) = 0)

C6_Witness ==
    /\ ret.op = "erase_range" /\ ret.first # end_
    /\ size_ = 3 /\ Len(Forward(T)) = 3 /\ ~empty(T)

\* ---- C7 ----
\* An insert(val) step on a tree that does not store val, the allocation
\* having succeeded.
C7_InsertNewStep ==
    ret'.op = "insert" =>
    \A val \in Keys : \A z \in AllocOutcomes(T, val) :
        (val \notin StoredKeys(T) /\ z # nil_ /\ Insert(val, z)) =>
            /\ ret'.threw = FALSE /\ ret'.second = TRUE
            /\ ret'.first \notin allocated
            /\ ret'.first \in InTree(T')
            /\ value'[ret'.first] = val
            /\ StoredKeys(T') = StoredKeys(T) \cup {val}
            /\ size(T') = size(T) + 1

\* C7: insert(key) of a key that is not stored, when it completes, returns
\* (iterator to a newly created node holding key, true); the stored keys
\* become the old ones plus key and size() grows by one.
C7_InsertNew == [][C7_InsertNewStep]_vars

C7_Witness ==
    /\ ret.op = "insert" /\ ret.second /\ path = "left"
    /\ rot = 2 /\ size_ >= 5
    /\ value[ret.first] \in Keys

\* ---- C8 ----
\* An insert(val) step on a tree that stores val, whatever the allocator
\* would have returned.
C8_InsertDuplicateStep ==
    ret'.op = "insert" =>
    \A val \in Keys : \A z \in AllocOutcomes(T, val) :
        (val \in StoredKeys(T) /\ Insert(val, z)) =>
            /\ ret'.threw = FALSE /\ ret'.second = FALSE
            /\ ret'.first \in InTree(T)
            /\ value[ret'.first] = val
            /\ UNCHANGED Structure

\* C8: insert(key) of a stored key returns (iterator to the node holding
\* key, false), allocates nothing and changes no link, colour, key, begin
\* cache or size.
C8_InsertDuplicate == [][C8_InsertDuplicateStep]_vars

C8_Witness ==
    /\ ret.op = "insert" /\ ~ret.second /\ ~ret.threw
    /\ path = "duplicate" /\ size_ >= 4
    /\ ret.first \in InTree(T) /\ ret.first # root(T) /\ ret.first # begin_

\* ---- C9 ----
\* An erase(val) step on a tree that stores val.
C9_EraseStoredStep ==
    ret'.op = "erase_key" =>
    \A val \in Keys :
        (val \in StoredKeys(T) /\ EraseKey(val)) =>
            /\ ret'.count = 1
            /\ StoredKeys(T') = StoredKeys(T) \ {val}
            /\ size(T') = size(T) - 1
            /\ find_unique(T', val) = end_

\* C9: erase(key) of a stored key returns 1, removes that key and no other,
\* lowers size() by one, and find(key) right after returns end().
C9_EraseStored == [][C9_EraseStoredStep]_vars

C9_Witness ==
    /\ ret.op = "erase_key" /\ ret.count = 1
    /\ path = "succ_below" /\ size_ >= 4

\* ---- C10 ----
\* An erase(val) step on a tree that does not store val.
C10_EraseAbsentStep ==
    ret'.op = "erase_key" =>
    \A val \in Keys :
        (val \notin StoredKeys(T) /\ EraseKey(val)) =>
            /\ ret'.count = 0
            /\ UNCHANGED Structure

\* C10: erase(key) of a key that is not stored, the empty tree included,
\* returns 0 and changes no link, colour, key, begin cache or size.
C10_EraseAbsent == [][C10_EraseAbsentStep]_vars

C10_Witness ==
    /\ ret.op = "erase_key" /\ ret.count = 0 /\ path = "absent"
    /\ size_ >= 3
    /\ \E k \in Keys : k \notin StoredKeys(T) /\ lower_bound_unique(T, k) # end_

\* ---- observations used for the iterators and the queries ----
\* The node of S with the least key, end() when S is empty.
LeastOf(t, S) ==
    IF S = {} THEN end_
    ELSE CHOOSE n \in S : \A m \in S : ~comp_(t.value[m], t.value[n])

\* The node of the tree whose key is equivalent to k, end() when there is
\* none.
Holder(t, k) ==
    LeastOf(t, {n \in InTree(t) :
                  ~comp_(t.value[n], k) /\ ~comp_(k, t.value[n])})

\* The nodes of the range [first, last): those ++ visits from first before
\* it reaches last.
RECURSIVE RangeNodes(_, _, _, _)
RangeNodes(t, first, last, fuel) ==
    IF first = last \/ first = end_ \/ fuel = 0 THEN {}
    ELSE {first} \cup RangeNodes(t, next_node(t, first), last, fuel - 1)

\* The fields of the tree t proper, as in Structure.
Fields(t) ==
    <<t.value, t.color, t.parent, t.left, t.right, t.begin_, t.size_,
      t.allocated>>

\* In the tree t2 that a call made of the tree, every node of S is still
\* allocated and linked, and holds the key it held.
StillValid(t2, S) ==
    /\ S \subseteq t2.allocated
    /\ S \subseteq InTree(t2)
    /\ \A n \in S : t2.value[n] = value[n]

\* The call that made t2 of the tree of the nodes S destroyed the nodes of
\* gone and no other, and left every other node valid.
OnlyDestroyed(t2, S, gone) ==
    /\ t2.allocated = allocated \ gone
    /\ StillValid(t2, S \ gone)

\* The call that made t2 of the tree of the nodes S destroyed no node and
\* left every node valid.
NoneDestroyed(t2, S) ==
    /\ allocated \subseteq t2.allocated
    /\ StillValid(t2, S)

\* ---- C11 ----
\* erase(pos) with the outcome r removed the key of pos and no other, and
\* returned the node holding the least of the larger keys, or end().
ErasedAt(r, pos) ==
    /\ StoredKeys(r.t) = StoredKeys(T) \ {value[pos]}
    /\ r.first = LeastOf(T, {n \in InTree(T) : comp_(value[pos], value[n])})
    /\ (\A n \in InTree(T) : ~comp_(value[pos], value[n])) => r.first = end_
    /\ r.first \in InTree(r.t) \cup {end_}

\* C11: erase(iterator to p), p a node of the tree, removes exactly p's key
\* and returns an iterator to the node that was p's in-order successor before
\* the erase, or end() when p held the largest key.
C11_EraseIter == \A pos \in InTree(T) : ErasedAt(erase_iter(T, pos), pos)

C11_Witness ==
    /\ ret.op = "erase_iter" /\ path = "succ_below"
    /\ ret.first \in InTree(T) /\ ret.first # begin_
    /\ left[ret.first] # nil_ /\ right[ret.first] # nil_
    /\ size_ >= 4

\* ---- C12 ----
\* C12: erase(end()) returns end() and changes no link, colour, key, begin
\* cache or size.
C12_EraseEnd ==
    /\ erase_iter(T, end_).first = end_
    /\ Fields(erase_iter(T, end_).t) = Fields(T)

C12_Witness ==
    /\ ret.op = "erase_iter" /\ path = "end" /\ ret.first = end_
    /\ size_ >= 3 /\ begin_ # end_

\* ---- C13 ----
\* erase(first, last) with the outcome r removed the keys of the nodes of
\* gone and no other, lowered size() by their number and returned last.
ErasedRange(r, gone, last) ==
    /\ StoredKeys(r.t) = StoredKeys(T) \ {value[n] : n \in gone}
    /\ InTree(r.t) = InTree(T) \ gone
    /\ size(r.t) = size(T) - Cardinality(gone)
    /\ r.first = last

\* The tree t is empty.
IsEmpty(t) ==
    /\ empty(t) /\ root(t) = nil_ /\ t.begin_ = end_
    /\ InTree(t) = {} /\ t.allocated = {}

\* Every range erase the tree admits removes its range and no more, and the
\* erase of the whole range leaves the empty tree.
RangeErased ==
    /\ \A first \in Iterators : \A last \in Iterators :
          IsRange(T, first, last) =>
              ErasedRange(erase_range(T, first, last),
                          RangeNodes(T, first, last, MaxKey + 1), last)
    /\ IsEmpty(erase_range(T, begin_, end_).t)
    /\ IsEmpty(clear(T))

\* C13: always, erase(first, last) of a range of the tree removes exactly the
\* keys of the nodes of the range and no other, lowers size() by the number
\* of nodes of the range and returns last; erase(begin(), end()), which is
\* clear(), leaves the tree empty.
C13_EraseRange == []RangeErased

C13_Witness ==
    /\ ret.op = "erase_range" /\ path # "empty_range"
    /\ ret.first \in InTree(T) /\ ret.first # begin_
    /\ size_ = 2 /\ allocated = InTree(T)

\* ---- C14 ----
\* After insert(val) returned r, find(val) is the iterator of r.
FoundAfter(r, val) == ~r.threw => find_unique(r.t, val) = r.first

\* C14: find(key) returns an iterator to the node whose key is equivalent to
\* key when one is stored and end() otherwise; right after insert(key) it
\* returns the iterator that insert returned.
C14_Find ==
    /\ \A k \in Keys : find_unique(T, k) = Holder(T, k)
    /\ \A val \in Keys : \A z \in AllocOutcomes(T, val) :
          FoundAfter(insert_unique(T, val, z), val)

C14_Witness ==
    /\ ret.op = "find" /\ ret.first \in InTree(T)
    /\ ret.first # root(T) /\ ret.first # begin_
    /\ size_ >= 4
    /\ \E k \in Keys : find_unique(T, k) = end_ /\ lower_bound_unique(T, k) # end_

\* ---- C15 ----
\* C15: lower_bound(key) returns an iterator to the node holding the
\* smallest stored key that is not less than key, or end() when every stored
\* key is less than key, the empty tree included.
C15_LowerBound ==
    \A k \in Keys :
        lower_bound_unique(T, k) =
            LeastOf(T, {n \in InTree(T) : ~comp_(value[n], k)})

C15_Witness ==
    /\ ret.op = "lower_bound" /\ ret.first \in InTree(T)
    /\ size_ >= 4
    /\ \E k \in Keys :
          /\ k \notin StoredKeys(T)
          /\ lower_bound_unique(T, k) = ret.first
    /\ \E k \in Keys : lower_bound_unique(T, k) = end_

\* ---- C16 ----
\* C16: upper_bound(key) returns an iterator to the node holding the
\* smallest stored key strictly greater than key, or end() when no stored key
\* is greater than key, the empty tree included.
C16_UpperBound ==
    \A k \in Keys :
        upper_bound_unique(T, k) =
            LeastOf(T, {n \in InTree(T) : comp_(k, value[n])})

C16_Witness ==
    /\ ret.op = "upper_bound" /\ ret.first \in InTree(T)
    /\ size_ >= 4
    /\ \E k \in StoredKeys(T) :
          /\ upper_bound_unique(T, k) = ret.first
          /\ lower_bound_unique(T, k) # ret.first
    /\ \E k \in Keys : upper_bound_unique(T, k) = end_

\* ---- C17 ----
\* The pair r is (j, u); with h the node holding the key or end() when it is
\* not stored, r is (j, j) when it is not stored and (h, ++h) when it is.
IsPair(r, j, u, h) ==
    /\ r.first = j
    /\ r.second = u
    /\ IF h = end_ THEN r.second = j
       ELSE r.first = h /\ r.second = next_node(T, h)

\* C17: equal_range(key) is the pair (lower_bound(key), upper_bound(key)):
\* (j, j) with j = lower_bound(key) when key is not stored, and (j, ++j) with
\* j the node holding key when it is stored.
C17_EqualRange ==
    \A k \in Keys :
        IsPair(equal_range_unique(T, k), lower_bound_unique(T, k),
               upper_bound_unique(T, k), Holder(T, k))

C17_Witness ==
    /\ ret.op = "equal_range" /\ ret.first \in InTree(T)
    /\ ret.last \in InTree(T) /\ ret.last # ret.first
    /\ ret.last = next_node(T, ret.first)
    /\ size_ >= 4

\* ---- C18 ----
\* Every insert and every erase that the tree, of the nodes S, admits
\* leaves the nodes it does not erase valid.
IteratorsStayValid(S) ==
    /\ \A pos \in Iterators :
          OnlyDestroyed(erase_iter(T, pos).t, S, {pos} \cap Nodes)
    /\ \A val \in Keys :
          OnlyDestroyed(erase_unique(T, val).t, S, {Holder(T, val)} \cap Nodes)
    /\ \A val \in Keys : \A z \in AllocOutcomes(T, val) :
          NoneDestroyed(insert_unique(T, val, z).t, S)
    /\ \A pos \in Iterators : \A val \in Keys : \A z \in AllocOutcomes(T, val) :
          NoneDestroyed(insert_unique_hint(T, pos, val, z).t, S)
    /\ \A first \in Iterators : \A last \in Iterators :
          IsRange(T, first, last) =>
              OnlyDestroyed(erase_range(T, first, last).t, S,
                            RangeNodes(T, first, last, MaxKey + 1))

\* C18: always, every insert and every erase leaves every node that was in
\* the tree and is not an erased node in the tree, holding the same key, so
\* that an iterator to it stays valid; only the erased nodes are destroyed,
\* and an insert destroys none.
C18_IteratorValidity == []IteratorsStayValid(InTree(T))

C18_Witness ==
    /\ ret.op = "erase_iter" /\ path = "succ_child"
    /\ ret.first \in InTree(T)
    /\ parent[ret.first] # end_ /\ left[ret.first] # nil_
    /\ rot >= 1 /\ size_ >= 4

\* ---- C19 ----
\* Two calls end alike: both return the same iterator or both throw, and
\* leave the same tree.
SameOutcome(h, p) ==
    /\ h.threw = p.threw
    /\ h.first = p.first
    /\ Fields(h.t) = Fields(p.t)

\* Every hinted insert the tree admits ends as the plain insert of the value
\* does.
HintedAsPlain ==
    \A pos \in Iterators : \A val \in Keys : \A z \in AllocOutcomes(T, val) :
        SameOutcome(insert_unique_hint(T, pos, val, z),
                    insert_unique(T, val, z))

\* C19: always, for every hint pos, a node of the tree or end(), and every
\* value, insert(pos, value) leaves the tree as insert(value) would (links,
\* colours, keys, begin cache, size) and returns the iterator insert(value)
\* returns, whether the hint is accepted or rejected or the value is stored
\* already.
C19_HintEquivalent == []HintedAsPlain

C19_Witness ==
    /\ ret.op = "insert_hint" /\ ~ret.threw
    /\ path = "hint_pos_left" /\ rot >= 1
    /\ size_ >= 5

\* ---- C20 ----
\* The nodes a reverse iterator visits from base x until its base equals
\* begin(): each the node before the base, cut off after fuel steps.
RECURSIVE Backward(_, _, _)
Backward(t, x, fuel) ==
    IF x = t.begin_ \/ fuel = 0 THEN <<>>
    ELSE <<prev_node(t, x)>> \o Backward(t, prev_node(t, x), fuel - 1)

\* C20: on a non-empty tree the traversal from rbegin() to rend() visits the
\* nodes, and so the keys, of the traversal from begin() to end() in the
\* reverse order.
C20_ReverseTraversal ==
    root(T) # nil_ =>
        /\ Len(Backward(T, end_, MaxKey + 1)) = Len(Forward(T))
        /\ \A i \in 1..Len(Forward(T)) :
             /\ Backward(T, end_, MaxKey + 1)[i] \in InTree(T)
             /\ Backward(T, end_, MaxKey + 1)[i]
                  = Forward(T)[Len(Forward(T)) + 1 - i]
             /\ value[Backward(T, end_, MaxKey + 1)[i]]
                  = value[Forward(T)[Len(Forward(T)) + 1 - i]]

C20_Witness ==
    /\ size_ >= 5 /\ ret.op = "erase_key" /\ rot >= 1
    /\ Len(Backward(T, end_, MaxKey + 1)) = size_
    /\ \E n \in InTree(T) :
          /\ left[n] = nil_ /\ n # begin_
          /\ left[parent[n]] = n /\ parent[parent[n]] # end_

\* ---- C21 ----
\* The number of nodes on the longest path from x down to a nil link.
RECURSIVE Height(_, _, _)
Height(t, x, fuel) ==
    IF x = nil_ \/ fuel = 0 THEN 0
    ELSE Let(Height(t, t.left[x], fuel - 1), LAMBDA l :
         Let(Height(t, t.right[x], fuel - 1), LAMBDA r :
         1 + (IF l < r THEN r ELSE l)))

\* C21: after any sequence of inserts and erases, inserts in increasing
\* order included, the height h of the tree satisfies h <= 2*log2(size()+1),
\* stated without logarithms as 2^h <= (size()+1)^2.
C21_HeightBound ==
    2 ^ Height(T, root(T), MaxKey + 1) <= (size(T) + 1) * (size(T) + 1)

C21_Witness ==
    /\ ret.op = "insert" /\ ret.second /\ path = "right"
    /\ size_ = 6 /\ Height(T, root(T), MaxKey + 1) = 4
    /\ ret.first = max_node(T, root(T))
    /\ \A i \in 1..6 : i \in StoredKeys(T)

\* ---- C22 ----
\* C22: in every non-empty tree, next_node of the node holding the largest
\* key is the sentinel, prev_node of the node holding the smallest key is the
\* sentinel, and prev_node of the sentinel is the node holding the largest
\* key.
C22_SentinelSteps ==
    root(T) # nil_ =>
        /\ next_node(T, LeastOf(T, {n \in InTree(T) :
                \A m \in InTree(T) : ~comp_(value[n], value[m])})) = end_
        /\ prev_node(T, LeastOf(T, InTree(T))) = end_
        /\ LeastOf(T, {n \in InTree(T) : comp_(value[prev_node(T, end_)],
                                               value[n])}) = end_
        /\ prev_node(T, end_) \in InTree(T)

C22_Witness ==
    /\ ret.op = "erase_iter" /\ size_ >= 4
    /\ prev_node(T, end_) # root(T) /\ parent[prev_node(T, end_)] # root(T)
    /\ begin_ # root(T) /\ next_node(T, prev_node(T, end_)) = end_

\* ---- C23 ----
\* The links and the colour of the sentinel in the tree t.
SentinelLinked(t) ==
    /\ t.left[end_] = t.right[end_]
    /\ t.left[end_] = root(t)
    /\ root(t) # nil_ => t.parent[root(t)] = end_
    /\ t.parent[end_] = end_
    /\ t.color[end_] = black_

\* C23: after every completed operation the sentinel's left and right links
\* are equal and both are the root, the parent link of a non-nil root is the
\* sentinel, the sentinel's parent link is the sentinel and its colour is
\* black; no operation changes the sentinel's parent or colour.
C23_Sentinel ==
    /\ SentinelLinked(T)
    /\ [][/\ SentinelLinked(T')
          /\ parent'[end_] = parent[end_]
          /\ color'[end_] = color[end_]]_vars

C23_Witness ==
    /\ ret.op = "insert" /\ ret.second /\ rot = 1 /\ size_ = 3
    /\ root(T) # ret.first /\ parent[root(T)] = end_
    /\ left[end_] = root(T) /\ right[end_] = root(T)

\* ---- C24 ----
\* The sentinel's left and right links of an empty tree are the sentinel.
C24_EmptySelfLinked ==
    empty(T) => (left[end_] = end_ /\ right[end_] = end_)

\* C24: whenever the tree is empty, after construction and after the erase
\* of the last element, the sentinel's left and right links are both nil_,
\* the null pointer, which is also what root() then returns.
C24_EmptyNil ==
    empty(T) => (left[end_] = nil_ /\ right[end_] = nil_ /\ root(T) = nil_)

C24_Witness ==
    /\ ret.op = "erase_key" /\ ret.count = 1 /\ path = "no_left"
    /\ empty(T) /\ left[end_] = nil_ /\ right[end_] = nil_

\* ---- C25 ----
\* A step in which create_node threw is a step of insert(value) or of
\* insert(hint, value) that leaves the tree as it was.
AllocFailureStep ==
    ret'.threw =>
        /\ ret'.op \in {"insert", "insert_hint"}
        /\ ret'.first = nil_ /\ ~ret'.second
        /\ UNCHANGED Structure

\* The tree an insert left when create_node threw has the order, the
\* colouring, the black heights, the begin cache and the size every
\* completed operation leaves.
AllocFailureKeeps ==
    ret.threw =>
        /\ C1_OrderedUnique /\ C2_NoRedRed /\ C3_BlackHeight
        /\ C4_RootBlack /\ C6_SizeIsCount /\ BeginIsLeftmost
        /\ allocated = InTree(T)

\* C25: when the allocation of the node fails during insert(value) or
\* insert(hint, value), nothing was linked, coloured, counted or cached
\* before the failure: the tree stays exactly as it was and still satisfies
\* every invariant.
C25_AllocFailure == []AllocFailureKeeps /\ [][AllocFailureStep]_vars

C25_Witness ==
    /\ ret.op = "insert_hint" /\ ret.threw
    /\ size_ >= 3 /\ size_ < MaxKey /\ Len(Forward(T)) = size_

\* ---- C26 ----
\* The loop of erase_fixup, started with x and xparent in the tree t, only
\* follows links of real nodes: at every iteration xparent is a node, and so
\* is the sibling w, both when first read and when read again after a
\* rotation.
RECURSIVE EraseFixupReads(_, _, _)
EraseFixupReads(t, x, xparent) ==
    IF ~(x # root(t) /\ (x = nil_ \/ t.color[x] = black_)) THEN TRUE
    ELSE /\ xparent \in Nodes
         /\ IF x = t.left[xparent]
            THEN /\ t.right[xparent] \in Nodes
                 /\ Let(fix_left_red_sibling(t, xparent, t.right[xparent]),
                      LAMBDA t1 :
                        /\ t1.right[xparent] \in Nodes
                        /\ both_black(t1, t1.right[xparent])
                           \/ fix_left_near(t1, xparent,
                                t1.right[xparent]).right[xparent] \in Nodes)
            ELSE /\ t.left[xparent] \in Nodes
                 /\ Let(fix_right_red_sibling(t, xparent, t.left[xparent]),
                      LAMBDA t1 :
                        /\ t1.left[xparent] \in Nodes
                        /\ both_black(t1, t1.left[xparent])
                           \/ fix_right_near(t1, xparent,
                                t1.left[xparent]).left[xparent] \in Nodes)
         /\ Let(IF x = t.left[xparent] THEN erase_fixup_left(t, x, xparent)
                ELSE erase_fixup_right(t, x, xparent),
                LAMBDA r : EraseFixupReads(r.t, r.x, r.xparent))

\* The tree insert_fixup is called on when val, not yet stored, is inserted:
\* the new node z hangs where the search loop ended.
LeafLinked(t, val, z) ==
    Let(insert_descend(t, val, root(t), end_, TRUE), LAMBDA d :
    link_leaf(create_node(t, val, z), z, d.y,
              IF d.comp THEN "left" ELSE "right"))

\* The loop of insert_fixup, started with the red z in the tree t: whenever
\* z's parent is red, the parent and the grandparent are real nodes, the
\* grandparent also when it is read again after the inner rotation.
RECURSIVE InsertFixupReads(_, _)
InsertFixupReads(t, z) ==
    IF t.color[t.parent[z]] # red_ THEN TRUE
    ELSE /\ t.parent[z] \in Nodes
         /\ t.parent[t.parent[z]] \in Nodes
         /\ Let(IF t.parent[z] = t.left[t.parent[t.parent[z]]]
                THEN insert_fixup_left(t, z, t.parent[z],
                                       t.parent[t.parent[z]])
                ELSE insert_fixup_right(t, z, t.parent[z],
                                        t.parent[t.parent[z]]),
                LAMBDA r : /\ t.parent[t.parent[z]] \in InTree(r.t)
                           /\ InsertFixupReads(r.t, r.z))

\* Every erase and every insert the tree admits runs its fixup over real
\* nodes only.
FixupsReadNodes ==
    /\ \A z \in InTree(T) :
         Let(erase_unlink(T, z), LAMBDA u :
           u.ycolor = black_ => EraseFixupReads(u.t, u.x, u.xparent))
    /\ \A val \in Keys \ StoredKeys(T) :
         \A z \in AllocOutcomes(T, val) \ {nil_} :
           InsertFixupReads([LeafLinked(T, val, z) EXCEPT !.color[z] = red_],
                            z)

\* C26: during any insert or erase the fixups never follow a nil link:
\* erase_fixup works from xparent, a real node, and never from a nil x, the
\* sibling w it reads from xparent is never nil, and the grandparent that
\* insert_fixup reads and recolours is a real node, never the sentinel.
C26_NoNilDereference == []FixupsReadNodes

C26_Witness ==
    /\ ret.op = "erase_key" /\ ret.count = 1 /\ rot = 3

\* ---- C27 ----
\* xparent is the parent of the slot x occupies in the tree t.
ParentOfSlot(t, x, xparent) ==
    /\ xparent \in Cells
    /\ x = t.left[xparent] \/ x = t.right[xparent]
    /\ x # nil_ => t.parent[x] = xparent

\* ParentOfSlot at the call of erase_fixup(x, xparent) and at the start of
\* every iteration of its loop.
RECURSIVE SlotTracked(_, _, _)
SlotTracked(t, x, xparent) ==
    /\ ParentOfSlot(t, x, xparent)
    /\ IF ~(x # root(t) /\ (x = nil_ \/ t.color[x] = black_)) THEN TRUE
       ELSE Let(IF x = t.left[xparent] THEN erase_fixup_left(t, x, xparent)
                ELSE erase_fixup_right(t, x, xparent),
                LAMBDA r :
                  \/ ~(r.x # root(r.t)
                       /\ (r.x = nil_ \/ r.t.color[r.x] = black_))
                  \/ SlotTracked(r.t, r.x, r.xparent))

\* C27: whenever erase_node calls erase_fixup(x, xparent), and at the start
\* of every iteration of its loop, xparent is the parent of the slot x
\* occupies: x, nil or not, is xparent->left or xparent->right, and a non-nil
\* x has x->parent = xparent; so it is for a z with two children, whether
\* the successor y is z's right child or lies deeper.
C27_XParentTracked ==
    \A z \in InTree(T) :
        Let(erase_unlink(T, z), LAMBDA u :
          u.ycolor = black_ => SlotTracked(u.t, u.x, u.xparent))

C27_Witness ==
    /\ ret.op = "erase_iter" /\ path = "succ_child" /\ rot >= 1
    /\ size_ >= 3

\* ---- C28 ----
\* The live cells are the nodes of the tree, and size() counts them.
LiveIsLinked ==
    /\ allocated = InTree(T)
    /\ Cardinality(allocated) = size(T)

\* erase_node(z) frees z once, when it is live and no longer linked: at its
\* call of destroy_node z is allocated, is not a node of the tree and no node
\* of the tree nor the sentinel links to it, and z is the one cell freed.
FreedUnlinked ==
    \A z \in InTree(T) :
        Let(erase_unlink(T, z), LAMBDA u :
        Let(IF u.ycolor = black_ THEN erase_fixup(u.t, u.x, u.xparent)
            ELSE u.t, LAMBDA f :
          /\ z \in f.allocated
          /\ z \notin InTree(f)
          /\ \A n \in InTree(f) \cup {end_} :
               f.left[n] # z /\ f.right[n] # z /\ f.parent[n] # z
          /\ f.begin_ # z
          /\ erase_node(T, z).allocated = allocated \ {z}))

\* Only insert allocates, one node a call, and only the erases and clear
\* free, and what they free was live and is no node of the tree after.
AllocationStep ==
    /\ allocated' \ allocated # {} =>
         /\ ret'.op \in {"insert", "insert_hint"}
         /\ Cardinality(allocated' \ allocated) = 1
         /\ allocated \subseteq allocated'
    /\ allocated \ allocated' # {} =>
         /\ ret'.op \in {"erase_iter", "erase_key", "erase_range", "clear"}
         /\ allocated' \subseteq allocated
         /\ size_' = size_ - Cardinality(allocated \ allocated')

\* C28: after every completed operation the nodes allocated and not yet
\* freed are exactly the nodes reachable from the root, size() many: only
\* insert allocates, every erased node is freed exactly once, and no node is
\* freed while it is still linked.
C28_NoLeak == [](LiveIsLinked /\ FreedUnlinked) /\ [][AllocationStep]_vars

C28_Witness ==
    /\ ret.op = "erase_range" /\ path # "empty_range"
    /\ ret.first = begin_ /\ size_ = 1 /\ allocated = {ret.first}

\* ---- C29 ----
\* The loop of erase(first, last) at the node now of the tree t: now is live
\* when its successor is read, and the successor read is, after
\* erase_node(now), end() or a live node of the tree that holds the key it
\* held; so on for the rest of the range.
RECURSIVE SuccessorCaptured(_, _, _)
SuccessorCaptured(t, now, last) ==
    IF now = last THEN TRUE
    ELSE /\ now \in t.allocated
         /\ now \in InTree(t)
         /\ Let(next_node(t, now), LAMBDA nx :
            Let(erase_node(t, now), LAMBDA t2 :
              /\ nx # now
              /\ nx \in t2.allocated \cup {end_}
              /\ nx # end_ => (nx \in InTree(t2) /\ t2.value[nx] = t.value[nx])
              /\ SuccessorCaptured(t2, nx, last)))

\* Every erase(iterator) and every erase(first, last) the tree admits goes
\* by successors captured before the erase, and erase(iterator) returns the
\* one it captured.
SuccessorsCaptured ==
    /\ \A pos \in InTree(T) :
         /\ SuccessorCaptured(T, pos, next_node(T, pos))
         /\ erase_iter(T, pos).first = next_node(T, pos)
         /\ erase_iter(T, pos).first \in erase_iter(T, pos).t.allocated
                                         \cup {end_}
    /\ \A first \in Iterators : \A last \in Iterators :
         IsRange(T, first, last) => SuccessorCaptured(T, first, last)

\* C29: erase(first, last) and erase(iterator) compute the in-order
\* successor of each node before they erase it and never read a link or a
\* key of a destroyed node; the successor captured is still a live node (or
\* end()) after the erase.
C29_SuccessorBeforeErase == []SuccessorsCaptured

C29_Witness ==
    /\ ret.op = "erase_range" /\ path = "succ_child" /\ rot >= 1
    /\ ret.first \in allocated /\ ret.first \in InTree(T)
    /\ size_ >= 3

\* ---- C30 ----
\* The tree t2 that a rotation at x with the child y made of the tree: the
\* traversal visits the same nodes in the same order, the nodes hold the keys
\* they held, the tree has the same nodes, no colour changed, y took x's
\* place above x, and when x was the root both links of the sentinel are y.
Rotated(t2, x, y) ==
    /\ Forward(t2) = Forward(T)
    /\ t2.value = value
    /\ InTree(t2) = InTree(T)
    /\ t2.color = color
    /\ t2.begin_ = begin_ /\ t2.size_ = size_ /\ t2.allocated = allocated
    /\ t2.parent[x] = y /\ t2.parent[y] = parent[x]
    /\ x = root(T) =>
         (t2.left[end_] = y /\ t2.right[end_] = y /\ t2.parent[y] = end_)
    /\ x # root(T) =>
         (t2.left[end_] = left[end_] /\ t2.right[end_] = right[end_])

\* C30: for every reachable tree and every node x whose right child is not
\* nil, left_rotate(x) keeps the in-order key sequence and the set of nodes
\* and changes no colour, and so does right_rotate(x) for every x whose left
\* child is not nil; when x is the root, the sentinel's left and right links
\* both become the new root of the subtree.
C30_Rotation ==
    \A x \in InTree(T) :
        /\ right[x] # nil_ =>
             (Rotated(left_rotate(T, x), x, right[x])
              /\ left_rotate(T, x).left[right[x]] = x)
        /\ left[x] # nil_ =>
             (Rotated(right_rotate(T, x), x, left[x])
              /\ right_rotate(T, x).right[left[x]] = x)

C30_Witness ==
    /\ rot >= 1 /\ root(T) # nil_
    /\ left[root(T)] # nil_ /\ right[root(T)] # nil_
    /\ right[left[root(T)]] # nil_ /\ left[right[root(T)]] # nil_

\* ---- C31 ----
\* The number of links from x up to the root.
RECURSIVE Depth(_, _, _)
Depth(t, x, fuel) ==
    IF t.parent[x] = end_ \/ fuel = 0 THEN 0
    ELSE 1 + Depth(t, t.parent[x], fuel - 1)

\* The loop of insert_fixup, started with the red z in the tree t: an
\* iteration with a red uncle rotates nothing and goes on with the
\* grandparent, two levels up; an iteration with a black uncle makes one or
\* two rotations and leaves z with a black parent, so the loop ends there.
RECURSIVE InsertFixupProgress(_, _)
InsertFixupProgress(t, z) ==
    IF t.color[t.parent[z]] # red_ THEN TRUE
    ELSE Let(t.parent[t.parent[z]], LAMBDA g :
         Let(IF t.parent[z] = t.left[g] THEN t.right[g] ELSE t.left[g],
             LAMBDA y :
         Let(IF t.parent[z] = t.left[g]
             THEN insert_fixup_left(t, z, t.parent[z], g)
             ELSE insert_fixup_right(t, z, t.parent[z], g), LAMBDA r :
         IF y # nil_ /\ t.color[y] = red_
         THEN /\ r.z = g /\ r.t.rot = t.rot
              /\ Depth(r.t, r.z, MaxKey) = Depth(t, z, MaxKey) - 2
              /\ InsertFixupProgress(r.t, r.z)
         ELSE /\ r.t.rot - t.rot \in {1, 2}
              /\ r.t.color[r.t.parent[r.z]] # red_)))

\* Every insert the tree admits runs an insert_fixup that makes progress and
\* at most two rotations.
InsertFixupBounded ==
    /\ (ret.op \in {"insert", "insert_hint"} /\ ~ret.threw) => rot <= 2
    /\ \A val \in Keys \ StoredKeys(T) :
         \A z \in AllocOutcomes(T, val) \ {nil_} :
           /\ InsertFixupProgress(
                [LeafLinked(T, val, z) EXCEPT !.color[z] = red_, !.rot = 0], z)
           /\ insert_unique(T, val, z).t.rot <= 2

RECURSIVE EraseFixupProgress(_, _, _)
EraseFixupProgress(t, x, xparent) ==
    IF ~(x # root(t) /\ (x = nil_ \/ t.color[x] = black_)) THEN t.rot <= 3
    ELSE Let(IF x = t.left[xparent] THEN erase_fixup_left(t, x, xparent)
             ELSE erase_fixup_right(t, x, xparent), LAMBDA r :
         /\ \/ /\ r.x = xparent
               /\ r.xparent = r.t.parent[xparent]
               /\ x = r.t.left[xparent] \/ x = r.t.right[xparent]
               /\ r.x # root(r.t) =>
                    Depth(r.t, r.x, MaxKey) = Depth(r.t, r.xparent, MaxKey) + 1
               /\ r.t.rot - t.rot \in {0, 1}
            \/ /\ r.x = root(r.t)
               /\ r.t.rot - t.rot \in {1, 2, 3}
         /\ r.t.rot <= 3
         /\ EraseFixupProgress(r.t, r.x, r.xparent))

\* Every erase the tree admits runs an erase_fixup that makes progress and
\* at most three rotations.
EraseFixupBounded ==
    /\ rot <= 3
    /\ \A z \in InTree(T) :
         Let(erase_unlink(T, z), LAMBDA u :
           /\ u.ycolor = black_ => EraseFixupProgress(u.t, u.x, u.xparent)
           /\ erase_node(T, z).rot <= 3)

HintSlot(pos, branch) ==
    IF branch = "hint_root" THEN left[end_]
    ELSE IF branch = "hint_end" THEN right[prev_node(T, end_)]
    ELSE IF branch = "hint_begin" THEN left[begin_]
    ELSE IF branch = "hint_prev_right" THEN right[prev_node(T, pos)]
    ELSE left[pos]

\* The hinted insert of val at pos into cell z: when the hint was accepted,
\* the slot written was nil, and the tree keeps all its nodes and gains z.
HintWritesNil(pos, val, z) ==
    Let(insert_unique_hint(T, pos, val, z), LAMBDA r :
      /\ r.t.path \in {"hint_root", "hint_end", "hint_begin",
                       "hint_prev_right", "hint_pos_left"}
           => HintSlot(pos, r.t.path) = nil_
      /\ InTree(r.t) = InTree(T) \cup {z}
      /\ Len(Forward(r.t)) = size(T) + 1)

\* Every hinted insert the tree admits writes a nil slot, and a node whose
\* predecessor has a right child has no left child.
HintSlotsNil ==
    /\ \A pos \in Iterators : \A val \in Keys \ StoredKeys(T) :
         \A z \in AllocOutcomes(T, val) \ {nil_} : HintWritesNil(pos, val, z)
    /\ \A pos \in InTree(T) \ {begin_} :
         right[prev_node(T, pos)] # nil_ => left[pos] = nil_

\* C33: on every accepted-hint path of insert(pos, value) the child slot
\* written (the right of the maximum, the left of begin, the right of
\* prev_node(pos) or the left of pos) is nil just before the write, so no
\* child link is overwritten and no subtree detached; when prev_node(pos)
\* has a right child, pos has no left child.
C33_HintSlotNil == []HintSlotsNil

C33_Witness ==
    /\ ret.op = "insert_hint" /\ ~ret.threw /\ path = "hint_pos_left"
    /\ rot >= 1 /\ size_ >= 5

\* ---- C34 ----
\* C34: after every completed insert and erase the parent links agree with
\* the child links: every non-nil child c of a node n has c->parent = n, and
\* every node is the left or right child of its parent, or is the root with
\* the sentinel as parent.
C34_ParentLinks ==
    \A n \in InTree(T) :
        /\ left[n] # nil_ => parent[left[n]] = n
        /\ right[n] # nil_ => parent[right[n]] = n
        /\ parent[n] \in Cells
        /\ IF n = root(T) THEN parent[n] = end_
           ELSE /\ parent[n] \in InTree(T)
                /\ left[parent[n]] = n \/ right[parent[n]] = n
        /\ left[n] # right[n] \/ left[n] = nil_

C34_Witness ==
    /\ ret.op = "erase_range" /\ path = "succ_below" /\ rot >= 2
    /\ size_ >= 4

\* ---- C37 ----
\* The fields of the tree rb_tree() constructs.
FreshFields ==
    <<[n \in Nodes |-> 0],
      [n \in Cells |-> black_],
      [n \in Cells |-> IF n = end_ THEN end_ ELSE nil_],
      [n \in Cells |-> nil_],
      [n \in Cells |-> nil_],
      end_, 0, {}>>

\* The tree t is as rb_tree() constructs it.
IsFresh(t) ==
    /\ root(t) = nil_ /\ t.begin_ = end_ /\ t.size_ = 0
    /\ t.color[end_] = black_ /\ t.left[end_] = t.right[end_]
    /\ t.parent[end_] = end_ /\ t.allocated = {}
    /\ Fields(t) = FreshFields

\* C37: whenever a sequence of operations ends with the tree empty, by
\* erases one at a time, by erase(begin(), end()) or by clear(), also
\* clear() of an empty tree, the tree is in the state of a freshly
\* constructed one (root nil, begin cache the sentinel, size 0, the sentinel
\* black with equal left and right), so that inserts that follow behave as
\* on a fresh tree.
C37_EmptyIsFresh ==
    /\ empty(T) => IsFresh(T)
    /\ IsFresh(clear(T))
    /\ IsFresh(erase_range(T, begin_, end_).t)
    /\ size(T) = 1 => IsFresh(erase_iter(T, begin_).t)
    /\ empty(T) =>
         \A val \in Keys : \A z \in AllocOutcomes(T, val) :
           Fields(insert_unique(T, val, z).t)
             = Fields(insert_unique([T EXCEPT !.value = FreshFields[1],
                                              !.color = FreshFields[2],
                                              !.parent = FreshFields[3],
                                              !.left = FreshFields[4],
                                              !.right = FreshFields[5],
                                              !.begin_ = end_,
                                              !.size_ = 0,
                                              !.allocated = {}], val, z).t)

C37_Witness ==
    /\ ret.op = "clear" /\ path = "no_left" /\ empty(T)
    /\ Fields(T) = FreshFields

\* ---- C38 ----
\* The mirror image of the tree t: left and right swapped in every node.
Mirror(t) == [t EXCEPT !.left = t.right, !.right = t.left]

\* The trees a and b are mirror images, links and colours, and were made by
\* as many rotations.
Mirrored(a, b) ==
    /\ a.left = b.right /\ a.right = b.left
    /\ a.parent = b.parent /\ a.color = b.color
    /\ a.rot = b.rot

\* Every fixup the tree admits commutes with the mirror image.
FixupsMirrored ==
    /\ \A val \in Keys \ StoredKeys(T) :
         \A z \in AllocOutcomes(T, val) \ {nil_} :
           Mirrored(insert_fixup(Mirror(LeafLinked(T, val, z)), z),
                    insert_fixup(LeafLinked(T, val, z), z))
    /\ \A z \in InTree(T) :
         Let(erase_unlink(T, z), LAMBDA u :
           u.ycolor = black_ =>
             Mirrored(erase_fixup(Mirror(u.t), u.x, u.xparent),
                      erase_fixup(u.t, u.x, u.xparent)))

\* C38: the left and right cases of insert_fixup and of erase_fixup are
\* mirrors: every fixup entered with its node on one side of its parent
\* yields the mirror image of what the same fixup yields on the mirror-image
\* tree, where the node is on the other side.
C38_Mirror == []FixupsMirrored

C38_Witness ==
    /\ ret.op = "erase_key" /\ ret.count = 1 /\ rot = 2
    /\ path = "no_left" /\ size_ >= 3

\* ---- C39 ----
\* A child link of a real node is never null.
C39_ChildNeverNull ==
    \A n \in allocated : left[n] # nil_ /\ right[n] # nil_

\* C39: in every reachable state the absence of a child of a real node is
\* the null link nil_ and never a reference to the sentinel: each child link
\* of a real node is nil_ or a live node of the tree, no child link is the
\* sentinel, and the nodes without children have two null links.
C39_ChildNilOrNode ==
    /\ \A n \in allocated :
         /\ left[n] \in allocated \cup {nil_}
         /\ right[n] \in allocated \cup {nil_}
         /\ left[n] # end_ /\ right[n] # end_
    /\ allocated # {} => \E n \in allocated : left[n] = nil_ /\ right[n] = nil_

C39_Witness ==
    /\ ret.op = "insert" /\ ret.second /\ size_ = 4
    /\ left[ret.first] = nil_ /\ right[ret.first] = nil_
    /\ \E n \in allocated : left[n] # nil_ /\ right[n] = nil_

\* ---- copy and move construction ----
\* The members of a tree object before its constructor body runs: nothing
\* is assigned yet, and its allocator has handed out no cell.
Blank ==
    [value |-> [n \in Nodes |-> 0],
     color |-> [n \in Cells |-> black_],
     parent |-> [n \in Cells |-> nil_],
     left |-> [n \in Cells |-> nil_],
     right |-> [n \in Cells |-> nil_],
     begin_ |-> nil_, size_ |-> 0, allocated |-> {},
     rot |-> 0, path |-> "none"]

\* The address of the sentinel of the other tree, the argument of a
\* constructor, seen from the tree under construction, whose own sentinel is
\* end_.
other_end_ == MaxKey + 2

\* The cell create_node gets for val while the tree d is built.
copy_cell(d, val) == CHOOSE z \in AllocOutcomes(d, val) \ {nil_} : TRUE

\* copy_tree(src, dst): the subtree of src in the tree o is copied under dst
\* in the tree d.
RECURSIVE copy_subtree(_, _, _, _)
copy_subtree(o, d, src, dst) ==
    Let(IF o.left[src] # nil_
        THEN Let(copy_cell(d, o.value[o.left[src]]), LAMBDA z :
             copy_subtree(o,
               [create_node(d, o.value[o.left[src]], z) EXCEPT
                  !.left[dst] = z, !.color[z] = o.color[o.left[src]],
                  !.parent[z] = dst],
               o.left[src], z))
        ELSE [d EXCEPT !.left[dst] = nil_], LAMBDA d1 :
    IF o.right[src] # nil_
    THEN Let(copy_cell(d1, o.value[o.right[src]]), LAMBDA z :
         copy_subtree(o,
           [create_node(d1, o.value[o.right[src]], z) EXCEPT
              !.right[dst] = z, !.color[z] = o.color[o.right[src]],
              !.parent[z] = dst],
           o.right[src], z))
    ELSE [d1 EXCEPT !.right[dst] = nil_])

\* copy_tree(other) up to "begin_ = min_node(root())".
copy_nodes(o) ==
    Let([Blank EXCEPT !.size_ = o.size_, !.parent[end_] = end_,
                      !.color[end_] = black_, !.path = "copy"], LAMBDA d0 :
    IF root(o) # nil_
    THEN Let(copy_cell(d0, o.value[root(o)]), LAMBDA z :
         copy_subtree(o,
           [set_root(create_node(d0, o.value[root(o)], z), z) EXCEPT
              !.color[z] = o.color[root(o)]],
           root(o), z))
    ELSE [d0 EXCEPT !.left[end_] = nil_, !.right[end_] = nil_])

\* copy_tree(other): the trees it can leave. For an empty other,
\* min_node(root()) reads nil_->left, the left link of the null pointer: the
\* read faults, or it yields whatever lies there and begin_ becomes some
\* pointer.
copy_tree(o) ==
    Let(copy_nodes(o), LAMBDA d :
    IF root(d) # nil_
    THEN {[t |-> [d EXCEPT !.begin_ = min_node(d, root(d))], fault |-> FALSE]}
    ELSE {[t |-> d, fault |-> TRUE]}
         \cup {[t |-> [d EXCEPT !.begin_ = p], fault |-> FALSE] : p \in Ptr})

\* What a move constructor leaves of its argument: the root and the members
\* begin_ and size_ of other.
Other(rt, bg, sz) == [root |-> rt, begin_ |-> bg, size_ |-> sz]

\* other.begin_ as a pointer of the tree under construction: the nodes keep
\* their addresses, the sentinel of other is other_end_.
from_other(p) == IF p = end_ THEN other_end_ ELSE p

\* rb_tree(rb_tree&& other): the new tree and what is left of other.
move_construct(o) ==
    Let([o EXCEPT !.begin_ = from_other(o.begin_), !.parent[end_] = end_,
                  !.color[end_] = black_, !.left[end_] = root(o),
                  !.right[end_] = root(o), !.rot = 0, !.path = "move"],
        LAMBDA d :
    [t |-> IF root(d) # nil_ THEN [d EXCEPT !.parent[root(d)] = end_] ELSE d,
     other |-> Other(nil_, other_end_, 0)])

\* rb_tree(rb_tree&& other, const allocator_type& alloc); same tells whether
\* alloc equals the allocator of other.
move_construct_alloc(o, same) ==
    IF same THEN move_construct(o)
    ELSE [t |-> [Blank EXCEPT !.parent[end_] = end_, !.color[end_] = black_,
                              !.left[end_] = nil_, !.right[end_] = nil_,
                              !.begin_ = end_, !.size_ = 0, !.path = "move"],
          other |-> Other(root(o), from_other(o.begin_), o.size_)]

\* rb_tree b(a), after which the program goes on with b; with fail, a
\* create_node of the copy throws and the program is left with a.
CopyConstruct(fail) ==
    IF fail
    THEN /\ root(T) # nil_
         /\ Becomes([T EXCEPT !.rot = 0, !.path = "copy"])
         /\ ret' = Result("copy", nil_, nil_, FALSE, 0, TRUE)
    ELSE \E c \in copy_tree(T) :
           /\ Becomes(c.t)
           /\ ret' = Result(IF c.fault THEN "fault" ELSE "copy",
                            c.t.begin_, nil_, FALSE, 0, FALSE)

\* rb_tree b(std::move(a)), after which the program goes on with b.
MoveConstruct ==
    /\ Becomes(move_construct(T).t)
    /\ ret' = Result("move", move_construct(T).t.begin_, nil_, FALSE, 0, FALSE)

\* rb_tree b(std::move(a), alloc), after which the program goes on with b.
MoveConstructAlloc(same) ==
    /\ Becomes(move_construct_alloc(T, same).t)
    /\ ret' = Result("move_alloc", move_construct_alloc(T, same).t.begin_,
                     nil_, FALSE, 0, FALSE)

\* begin() is an iterator of the tree. A tree whose begin_ is anything else
\* is not followed further: its clear() and its destructor would hand a
\* pointer that is no node of the tree to erase_node.
BeginValid == begin_ \in Iterators

NextCtor ==
    \/ BeginValid /\ Next
    \/ BeginValid /\ \E fail \in BOOLEAN : CopyConstruct(fail)
    \/ BeginValid /\ MoveConstruct
    \/ BeginValid /\ \E same \in BOOLEAN : MoveConstructAlloc(same)

SpecCtor == Init /\ [][NextCtor]_vars

\* The keys and colours of the subtree of x in the tree t, in its shape.
RECURSIVE Shape(_, _, _)
Shape(t, x, fuel) ==
    IF x = nil_ \/ fuel = 0 THEN <<>>
    ELSE <<t.value[x], t.color[x], Shape(t, t.left[x], fuel - 1),
           Shape(t, t.right[x], fuel - 1)>>

\* The begin cache of the tree t is its leftmost node, its sentinel when it
\* is empty.
OwnBegin(t) ==
    t.begin_ = (IF root(t) = nil_ THEN end_ ELSE min_node(t, root(t)))

\* ---- C35 ----
\* The copy c of the tree: made without a fault, of the same size, keys,
\* shape and colours, its sentinel linked to its own root and its begin
\* cache its own leftmost node or sentinel.
Copied(c) ==
    /\ ~c.fault
    /\ c.t.size_ = size(T)
    /\ Shape(c.t, root(c.t), MaxKey + 1) = Shape(T, root(T), MaxKey + 1)
    /\ c.t.left[end_] = c.t.right[end_]
    /\ c.t.parent[end_] = end_ /\ c.t.color[end_] = black_
    /\ root(c.t) # nil_ => c.t.parent[root(c.t)] = end_
    /\ OwnBegin(c.t)

\* C35: the copy construction of a tree from any reachable tree, the empty
\* one included, follows no nil link and yields a tree of the same size with
\* the same keys in the same shape with the same colours, whose sentinel
\* aliases its own root and whose begin cache is its own leftmost node, or
\* its own sentinel when the source is empty.
C35_CopyConstruct == \A c \in copy_tree(T) : Copied(c)

\* ---- C36 ----
\* The outcome r of a move construction from the tree: the new tree holds
\* the keys, its begin cache is its own leftmost node or sentinel, so that
\* begin() = end() exactly when it is empty, and other is left empty.
Moved(r) ==
    /\ StoredKeys(r.t) = StoredKeys(T)
    /\ r.t.size_ = size(T)
    /\ OwnBegin(r.t)
    /\ (r.t.begin_ = end_) <=> (r.t.size_ = 0)
    /\ r.other.root = nil_ /\ r.other.size_ = 0
    /\ r.other.begin_ = other_end_

\* C36: the move construction of a tree from any reachable tree, the empty
\* one included, leaves the new tree with exactly the keys the source held
\* and with its begin cache its own leftmost node, or its own sentinel when
\* it is empty (begin() = end() exactly when it is empty), and leaves the
\* source empty, of size 0 and with begin() = end().
C36_MoveConstruct ==
    /\ Moved(move_construct(T))
    /\ Moved(move_construct_alloc(T, TRUE))

====
